---- MODULE Spec2Model ----
(***************************************************************************)
(* ROSCA Forecast App v13 (rosca_forecast_app_v13.py): the forecast engine *)
(* run_forecast, the aggregators monthly_summary / yearly_summary, the    *)
(* validator validate_slab_total and the main script that calls them.      *)
(*                                                                         *)
(* Arithmetic.  The program computes in Python ints and IEEE doubles.  The *)
(* model computes the same expressions exactly: a quantity that the code   *)
(* truncates with int() is an integer here (Trunc), and a money amount is  *)
(* an exact rational w + t/Ticks (Ticks = 100 * 12, the common denominator *)
(* of the /100 and /100/12 factors), kept as the pair [w, t] so that the   *)
(* 20,000,000-user market of the documented scenario stays inside TLC's    *)
(* 32-bit integers.  The inputs are integers for which every truncated     *)
(* quantity is non-negative, where int() is floor.  On them the fields the *)
(* code truncates from doubles (base_users, active_users, Users, Defaults) *)
(* are the exact ones, and its float fields are the exact amounts up to    *)
(* the rounding of a double.                                               *)
(*                                                                         *)
(* Session.  Streamlit runs the script again whenever a widget changes.    *)
(* runs, edit and prev record that: the number of runs so far, the widget  *)
(* change that caused the current run, and the tables the previous run     *)
(* left, so that two runs on inputs that differ in one widget can be       *)
(* compared.                                                               *)
(***************************************************************************)
EXTENDS Integers, Sequences, FiniteSets, TLC

VARIABLES
    config,         \* the dict of get_config()
    durations,      \* the list of the multiselect
    slab_map,       \* duration -> (slab -> pct)
    slot_fees,      \* duration -> (slot -> [fee, blocked])
    warned,         \* durations for which "Total must equal 100%" was shown
    pc,             \* position of the script
    m,              \* run_forecast: loop variable
    active_users,   \* run_forecast: local
    tam_used,       \* run_forecast: local
    forecast,       \* run_forecast: the list of record dicts
    df_forecast,    \* main: result of run_forecast
    df_monthly,     \* main: result of monthly_summary
    df_yearly,      \* main: result of yearly_summary
    runs,           \* number of script runs of the session so far
    edit,           \* the widget change that caused the current run
    prev            \* outcome of the previous run of the session

vars == <<config, durations, slab_map, slot_fees, warned, pc, m, active_users,
          tam_used, forecast, df_forecast, df_monthly, df_yearly, runs, edit, prev>>

inputs == <<config, durations, slab_map, slot_fees, warned>>
locals == <<m, active_users, tam_used, forecast>>
frames == <<df_forecast, df_monthly, df_yearly>>

-----------------------------------------------------------------------------
(* Bounds of the model *)

\* script runs in one session (streamlit re-runs the script on each widget change)
MaxRuns == 2

-----------------------------------------------------------------------------
(* Arithmetic *)

\* int(n / d) for an integer n and d > 0: Python's int() truncates toward zero
Trunc(n, d) == IF n >= 0 THEN n \div d ELSE -((-n) \div d)

Ticks == 100 * 12

QInt(n) == [w |-> n, t |-> 0]

\* the exact value x * k / den, for x >= 0, k >= 0 and den dividing Ticks
QFrac(x, k, den) ==
    LET r == (x % den) * k
    IN  [w |-> (x \div den) * k + (r \div den), t |-> (r % den) * (Ticks \div den)]

\* q * n for an integer n >= 0
QScale(q, n) ==
    LET r == q.t * n
    IN  [w |-> q.w * n + (r \div Ticks), t |-> r % Ticks]

QAdd(a, b) ==
    LET s == a.t + b.t
    IN  [w |-> a.w + b.w + (s \div Ticks), t |-> s % Ticks]

QSub(a, b) ==
    LET s == a.t - b.t
    IN  [w |-> a.w - b.w + (s \div Ticks), t |-> s % Ticks]

-----------------------------------------------------------------------------
(* validate_slab_total *)

RECURSIVE SumValues(_, _)
SumValues(f, S) ==
    IF S = {} THEN 0
    ELSE LET x == CHOOSE y \in S : TRUE IN f[x] + SumValues(f, S \ {x})

\* abs(sum(slab_alloc.values()) - 100) < 0.01, in hundredths of a percent
validate_slab_total(slab_alloc) ==
    LET diff == 100 * SumValues(slab_alloc, DOMAIN slab_alloc) - 100 * 100
    IN  (IF diff >= 0 THEN diff ELSE -diff) < 1

-----------------------------------------------------------------------------
(* run_forecast *)

months == 60

\* the slab catalog, in the insertion order of every slab_alloc dict
slabs == <<1000, 2000, 5000, 10000, 15000, 20000, 25000, 50000>>

\* the keys of a record dict, in insertion order: the columns of the table
Columns == <<"Month", "Year", "Duration", "Slab", "Slot", "Users", "Deposit/User",
             "Fee %", "Fee Collected", "NII", "Defaults", "Profit">>

\* base_users = int((total_market * tam_pct/100) * (start_pct/100))
BaseUsers(cfg) == Trunc(cfg.total_market * cfg.tam_pct * cfg.start_pct, 100 * 100)

\* variant: the ceiling itself does not stop the loop
ReachedTamStrict(cfg, used) == used * 100 > cfg.total_market * cfg.tam_pct

\* tam_used >= config['total_market'] * config['tam_pct']/100
ReachedTam(cfg, used) == used * 100 >= cfg.total_market * cfg.tam_pct

\* variant: the yearly growth rate is added to the monthly one
GrownWithYearly(cfg, a) == Trunc(a * (100 + cfg.monthly_growth + cfg.yearly_growth), 100)

\* active_users = int(active_users * (1 + monthly_growth/100))
Grown(cfg, a) == Trunc(a * (100 + cfg.monthly_growth), 100)

\* variant: the share is rounded up
UsersOfCeil(a, pct) == (a * pct + 99) \div 100

\* users = int(active_users * (pct / 100))
UsersOf(a, pct) == Trunc(a * pct, 100)

\* variant: the penalty is applied to the later half of the defaults
SlotRecordSwapped(cfg, sf, mm, d, slab, users, slot) ==
    LET deposit  == slab * d
        fee_pct  == sf[d][slot].fee
        fee      == QFrac(deposit, fee_pct, 100)
        nii      == QFrac(deposit * users, cfg.kibor + cfg.spread, Ticks)
        defaults == Trunc(users * cfg.default_rate, 100)
        pre      == defaults - (defaults \div 2)
        post     == defaults \div 2
        pre_loss == QFrac(pre * deposit, 100 - cfg.penalty_pct, 100)
        post_loss == QInt(post * deposit)
        profit   == QSub(QSub(QAdd(QScale(fee, users), nii), pre_loss), post_loss)
    IN  "Month" :> mm @@ "Year" :> ((mm - 1) \div 12) + 1 @@ "Duration" :> d @@
        "Slab" :> slab @@ "Slot" :> slot @@ "Users" :> users @@
        "Deposit/User" :> deposit @@ "Fee %" :> fee_pct @@
        "Fee Collected" :> QScale(fee, users) @@ "NII" :> nii @@
        "Defaults" :> defaults @@ "Profit" :> profit

\* variant: the users of a slab are divided among the slots
SlotRecordSplit(cfg, sf, mm, d, slab, users, slot) ==
    LET deposit  == slab * d
        fee_pct  == sf[d][slot].fee
        fee      == QFrac(deposit, fee_pct, 100)
        nii      == QFrac(deposit * users, cfg.kibor + cfg.spread, Ticks)
        defaults == Trunc(users * cfg.default_rate, 100)
        pre      == defaults \div 2
        post     == defaults - (defaults \div 2)
        pre_loss == QFrac(pre * deposit, 100 - cfg.penalty_pct, 100)
        post_loss == QInt(post * deposit)
        profit   == QSub(QSub(QAdd(QScale(fee, users), nii), pre_loss), post_loss)
    IN  "Month" :> mm @@ "Year" :> ((mm - 1) \div 12) + 1 @@ "Duration" :> d @@
        "Slab" :> slab @@ "Slot" :> slot @@ "Users" :> users \div d @@
        "Deposit/User" :> deposit @@ "Fee %" :> fee_pct @@
        "Fee Collected" :> QScale(fee, users) @@ "NII" :> nii @@
        "Defaults" :> defaults @@ "Profit" :> profit

\* the body of the slot loop for an unblocked slot: one record dict
SlotRecord(cfg, sf, mm, d, slab, users, slot) ==
    LET deposit  == slab * d
        fee_pct  == sf[d][slot].fee
        fee      == QFrac(deposit, fee_pct, 100)
        nii      == QFrac(deposit * users, cfg.kibor + cfg.spread, Ticks)
        defaults == Trunc(users * cfg.default_rate, 100)
        pre      == defaults \div 2
        post     == defaults - (defaults \div 2)
        pre_loss == QFrac(pre * deposit, 100 - cfg.penalty_pct, 100)
        post_loss == QInt(post * deposit)
        profit   == QSub(QSub(QAdd(QScale(fee, users), nii), pre_loss), post_loss)
    IN  "Month" :> mm @@ "Year" :> ((mm - 1) \div 12) + 1 @@ "Duration" :> d @@
        "Slab" :> slab @@ "Slot" :> slot @@ "Users" :> users @@
        "Deposit/User" :> deposit @@ "Fee %" :> fee_pct @@
        "Fee Collected" :> QScale(fee, users) @@ "NII" :> nii @@
        "Defaults" :> defaults @@ "Profit" :> profit

\* variant: a blocked slot ends the loop (break for continue)
RECURSIVE SlotLoopBreak(_, _, _, _, _, _, _)
SlotLoopBreak(cfg, sf, mm, d, slab, users, slot) ==
    IF slot > d \/ sf[d][slot].blocked THEN <<>>
    ELSE <<SlotRecord(cfg, sf, mm, d, slab, users, slot)>>
         \o SlotLoopBreak(cfg, sf, mm, d, slab, users, slot + 1)

\* for slot in range(1, d+1): if blocked: continue; append the record
RECURSIVE SlotLoop(_, _, _, _, _, _, _)
SlotLoop(cfg, sf, mm, d, slab, users, slot) ==
    IF slot > d THEN <<>>
    ELSE (IF sf[d][slot].blocked THEN <<>>
          ELSE <<SlotRecord(cfg, sf, mm, d, slab, users, slot)>>)
         \o SlotLoop(cfg, sf, mm, d, slab, users, slot + 1)

\* for slab, pct in slab_map[d].items(): if pct <= 0: continue; ...
RECURSIVE SlabLoop(_, _, _, _, _, _, _)
SlabLoop(cfg, sm, sf, mm, d, a, i) ==
    IF i > Len(slabs) THEN <<>>
    ELSE (IF slabs[i] \notin DOMAIN sm[d] \/ sm[d][slabs[i]] <= 0 THEN <<>>
          ELSE SlotLoop(cfg, sf, mm, d, slabs[i], UsersOf(a, sm[d][slabs[i]]), 1))
         \o SlabLoop(cfg, sm, sf, mm, d, a, i + 1)

\* for d in durations: ...
RECURSIVE DurationLoop(_, _, _, _, _, _, _)
DurationLoop(cfg, durs, sm, sf, mm, a, j) ==
    IF j > Len(durs) THEN <<>>
    ELSE SlabLoop(cfg, sm, sf, mm, durs[j], a, 1)
         \o DurationLoop(cfg, durs, sm, sf, mm, a, j + 1)

\* pd.DataFrame(list_of_dicts): an empty list gives a table without columns
DataFrame(rows) == [columns |-> IF rows = <<>> THEN <<>> ELSE Columns, rows |-> rows]

NoFrame == [columns |-> <<>>, rows |-> <<>>]

-----------------------------------------------------------------------------
(* monthly_summary / yearly_summary *)

Measures == <<"Users", "Fee Collected", "NII", "Profit">>

Range(s) == {s[i] : i \in DOMAIN s}

\* the elements of a finite set of integers, in ascending order
Ascending(S) ==
    [i \in 1..Cardinality(S) |-> CHOOSE x \in S : Cardinality({y \in S : y < x}) = i - 1]

\* sum of an integer column over rows lo..hi, for the rows whose key column is k
RECURSIVE SumInt(_, _, _, _, _, _)
SumInt(rows, key, k, col, lo, hi) ==
    IF lo > hi THEN 0
    ELSE IF lo = hi THEN (IF rows[lo][key] = k THEN rows[lo][col] ELSE 0)
    ELSE SumInt(rows, key, k, col, lo, (lo + hi) \div 2)
         + SumInt(rows, key, k, col, ((lo + hi) \div 2) + 1, hi)

\* sum of a money column over rows lo..hi, for the rows whose key column is k
RECURSIVE SumQ(_, _, _, _, _, _)
SumQ(rows, key, k, col, lo, hi) ==
    IF lo > hi THEN QInt(0)
    ELSE IF lo = hi THEN (IF rows[lo][key] = k THEN rows[lo][col] ELSE QInt(0))
    ELSE QAdd(SumQ(rows, key, k, col, lo, (lo + hi) \div 2),
              SumQ(rows, key, k, col, ((lo + hi) \div 2) + 1, hi))

\* variant: the first record is left out of the sums
GroupRowFromSecond(rows, key, k) ==
    key :> k @@
    "Users" :> SumInt(rows, key, k, "Users", 2, Len(rows)) @@
    "Fee Collected" :> SumQ(rows, key, k, "Fee Collected", 2, Len(rows)) @@
    "NII" :> SumQ(rows, key, k, "NII", 2, Len(rows)) @@
    "Profit" :> SumQ(rows, key, k, "Profit", 2, Len(rows))

\* the row of group k: the key and the sums of the four measures
GroupRow(rows, key, k) ==
    key :> k @@
    "Users" :> SumInt(rows, key, k, "Users", 1, Len(rows)) @@
    "Fee Collected" :> SumQ(rows, key, k, "Fee Collected", 1, Len(rows)) @@
    "NII" :> SumQ(rows, key, k, "NII", 1, Len(rows)) @@
    "Profit" :> SumQ(rows, key, k, "Profit", 1, Len(rows))

\* one row per key, in the order of keys
GroupRows(rows, key, keys) == [i \in DOMAIN keys |-> GroupRow(rows, key, keys[i])]

\* df.groupby(key)[Measures].sum().reset_index(): groups sorted by key
GroupSum(df, key) ==
    [columns |-> <<key>> \o Measures,
     rows |-> GroupRows(df.rows, key, Ascending({df.rows[i][key] : i \in DOMAIN df.rows}))]

\* groupby raises KeyError when the table has no such column
Raises(df, key) == key \notin Range(df.columns)

monthly_summary(df) == GroupSum(df, "Month")

yearly_summary(df) == GroupSum(df, "Year")

-----------------------------------------------------------------------------
(* Inputs: what the widgets of get_config, get_durations_and_slabs and      *)
(* get_slot_fees can return.                                                *)

\* total_market, tam_pct, start_pct, monthly_growth
DefaultMarket == <<20000000, 10, 10, 2>>   \* ceiling 2,000,000, base 200,000

Markets ==
    { <<0, 100, 100, 0>>,        \* empty market: ceiling 0
      <<100, 100, 100, 0>>,      \* base_users equals the ceiling
      <<100, 100, 50, 0>>,       \* ceiling reached at the end of month 1
      <<100, 100, 25, 50>>,      \* 25, 37, 55: two months
      <<100, 100, 25, 0>>,       \* three months
      <<8, 50, 25, 0>>,          \* base 1, ceiling 4
      <<100, 50, 10, 50>>,       \* 5, 7, 10, 15, 22
      <<1000, 10, 10, 2>>,       \* growth lost in int(): 10 stays 10
      <<100, 100, 5, 0>>,        \* ceiling reached in year 2
      <<100, 100, 1, 0>>,        \* ceiling never reached: the full horizon
      <<100, 100, 25, -50>> }    \* shrinking base: 25, 12, 6, 3, 1, 0

\* kibor, spread, default_rate, penalty_pct, and the fee of slot k
Terms ==
    { [kibor |-> 11, spread |-> 5, default_rate |-> 1, penalty_pct |-> 10, rising |-> FALSE],
      [kibor |-> 10, spread |-> 2, default_rate |-> 50, penalty_pct |-> 50, rising |-> TRUE] }

YearlyGrowths == {5, 0}
FeeMethods == {"Upfront", "Monthly"}

Config(mk, tr, yg, fm) ==
    [total_market |-> mk[1], tam_pct |-> mk[2], start_pct |-> mk[3],
     monthly_growth |-> mk[4], yearly_growth |-> yg, kibor |-> tr.kibor,
     spread |-> tr.spread, default_rate |-> tr.default_rate,
     penalty_pct |-> tr.penalty_pct, fee_method |-> fm]

\* a slab_alloc dict: every slab of the catalog, here with the first two set
SlabAlloc(p) ==
    [s \in Range(slabs) |-> IF s = slabs[1] THEN p[1] ELSE IF s = slabs[2] THEN p[2] ELSE 0]

Allocations == { <<0, 0>>, <<100, 0>>, <<50, 50>>, <<100, 50>>, <<0, 50>> }

\* the slot table of a duration: fee 1% (the default) or (slot - 1)%
SlotTable(d, blk, rising) ==
    [k \in 1..d |-> [fee |-> IF rising THEN k - 1 ELSE 1,
                     blocked |-> \/ blk = "all"
                                 \/ blk = "first" /\ k = 1]]

DurationLists == { <<>>, <<3>>, <<4>>, <<3, 4>>, <<4, 3>> }

Structures(durs, allocs, blks, rising) ==
    { [durations |-> durs,
       slab_map  |-> [d \in Range(durs) |-> SlabAlloc(al[d])],
       slot_fees |-> [d \in Range(durs) |-> SlotTable(d, bl[d], rising)]] :
      al \in [Range(durs) -> allocs], bl \in [Range(durs) -> blks] }

\* the inputs with a market of mks, terms of trs and a structure over lists
InputsOf(mks, trs, lists, allocs, blks) ==
    UNION { { [config |-> Config(mk, tr, 5, "Upfront"), st |-> st] :
              st \in UNION { Structures(durs, allocs, blks, tr.rising) : durs \in lists } } :
            mk \in mks, tr \in trs }

\* the widgets' defaults, with slab 1000 allocated 100% of a 3-month committee
DefaultInputs ==
    InputsOf({DefaultMarket}, {tr \in Terms : ~tr.rising}, {<<3>>}, {<<100, 0>>},
             {"none", "first"})

\* every market and both terms, on one committee duration
DynamicsInputs ==
    InputsOf(Markets, Terms, {<<3>>}, {<<100, 0>>, <<50, 50>>}, {"none"})

\* every committee structure, on a short-lived market
StructureInputs ==
    InputsOf({<<100, 100, 25, 50>>}, {tr \in Terms : tr.rising}, DurationLists,
             Allocations, {"first", "all"})

Inputs == DefaultInputs \cup DynamicsInputs \cup StructureInputs

Warned(durs, sm) == { d \in Range(durs) : ~validate_slab_total(sm[d]) }

NoEdit == [kind |-> "none", d |-> 0, slot |-> 0]
NoPrev == [outcome |-> "none", forecast |-> NoFrame, monthly |-> NoFrame, yearly |-> NoFrame]

InitWith(S) ==
    /\ \E in \in S :
         /\ config = in.config
         /\ durations = in.st.durations
         /\ slab_map = in.st.slab_map
         /\ slot_fees = in.st.slot_fees
         /\ warned = Warned(in.st.durations, in.st.slab_map)
    /\ pc = "main"
    /\ m = 0
    /\ active_users = 0
    /\ tam_used = 0
    /\ forecast = <<>>
    /\ df_forecast = NoFrame
    /\ df_monthly = NoFrame
    /\ df_yearly = NoFrame
    /\ runs = 1
    /\ edit = NoEdit
    /\ prev = NoPrev

Init == InitWith(Inputs)

-----------------------------------------------------------------------------
(* The main script and run_forecast, step by step *)

\* if durations: df_forecast = run_forecast(...): the locals before the loop
Call ==
    /\ pc = "main"
    /\ durations # <<>>
    /\ active_users' = BaseUsers(config)
    /\ tam_used' = BaseUsers(config)
    /\ forecast' = <<>>
    /\ m' = 0
    /\ pc' = "for"
    /\ UNCHANGED <<inputs, frames, runs, edit, prev>>

\* else: st.warning("Please select at least one committee duration ...")
Skip ==
    /\ pc = "main"
    /\ durations = <<>>
    /\ pc' = "idle"
    /\ UNCHANGED <<inputs, locals, frames, runs, edit, prev>>

\* variant: the range runs one month too far
MonthOffByOne ==
    /\ pc = "for"
    /\ m <= months
    /\ m' = m + 1
    /\ forecast' = forecast \o DurationLoop(config, durations, slab_map, slot_fees,
                                            m + 1, active_users, 1)
    /\ pc' = "grow"
    /\ UNCHANGED <<inputs, active_users, tam_used, frames, runs, edit, prev>>

\* for m in range(1, months+1): the three nested loops of month m
Month ==
    /\ pc = "for"
    /\ m < months
    /\ m' = m + 1
    /\ forecast' = forecast \o DurationLoop(config, durations, slab_map, slot_fees,
                                            m + 1, active_users, 1)
    /\ pc' = "grow"
    /\ UNCHANGED <<inputs, active_users, tam_used, frames, runs, edit, prev>>

\* the range is exhausted
Exhaust ==
    /\ pc = "for"
    /\ m >= months
    /\ pc' = "return"
    /\ UNCHANGED <<inputs, locals, frames, runs, edit, prev>>

\* the end of the month, when the ceiling is reached: break
Break ==
    /\ pc = "grow"
    /\ active_users' = Grown(config, active_users)
    /\ tam_used' = tam_used + Grown(config, active_users)
    /\ ReachedTam(config, tam_used + Grown(config, active_users))
    /\ pc' = "return"
    /\ UNCHANGED <<inputs, m, forecast, frames, runs, edit, prev>>

\* variant: the pre-growth active_users is accumulated
ContinueAddsOld ==
    /\ pc = "grow"
    /\ active_users' = Grown(config, active_users)
    /\ tam_used' = tam_used + active_users
    /\ ~ReachedTam(config, tam_used + active_users)
    /\ pc' = "for"
    /\ UNCHANGED <<inputs, m, forecast, frames, runs, edit, prev>>

\* the end of the month, when it is not: on to the next month
Continue ==
    /\ pc = "grow"
    /\ active_users' = Grown(config, active_users)
    /\ tam_used' = tam_used + Grown(config, active_users)
    /\ ~ReachedTam(config, tam_used + Grown(config, active_users))
    /\ pc' = "for"
    /\ UNCHANGED <<inputs, m, forecast, frames, runs, edit, prev>>

\* return pd.DataFrame(forecast)
Return ==
    /\ pc = "return"
    /\ df_forecast' = DataFrame(forecast)
    /\ pc' = "monthly"
    /\ UNCHANGED <<inputs, locals, df_monthly, df_yearly, runs, edit, prev>>

\* df_monthly = monthly_summary(df_forecast)
Monthly ==
    /\ pc = "monthly"
    /\ ~Raises(df_forecast, "Month")
    /\ df_monthly' = monthly_summary(df_forecast)
    /\ pc' = "yearly"
    /\ UNCHANGED <<inputs, locals, df_forecast, df_yearly, runs, edit, prev>>

\* the KeyError of groupby("Month") ends the script run
MonthlyRaises ==
    /\ pc = "monthly"
    /\ Raises(df_forecast, "Month")
    /\ pc' = "KeyError"
    /\ UNCHANGED <<inputs, locals, frames, runs, edit, prev>>

\* df_yearly = yearly_summary(df_forecast); the tables are shown and exported
Yearly ==
    /\ pc = "yearly"
    /\ ~Raises(df_forecast, "Year")
    /\ df_yearly' = yearly_summary(df_forecast)
    /\ pc' = "done"
    /\ UNCHANGED <<inputs, locals, df_forecast, df_monthly, runs, edit, prev>>

Ended == pc \in {"done", "idle", "KeyError"}

\* what a script run left behind, and the fresh start of the next one
Rerun ==
    /\ Ended
    /\ runs < MaxRuns
    /\ runs' = runs + 1
    /\ prev' = [outcome |-> pc, forecast |-> df_forecast,
                monthly |-> df_monthly, yearly |-> df_yearly]
    /\ pc' = "main"
    /\ m' = 0
    /\ active_users' = 0
    /\ tam_used' = 0
    /\ forecast' = <<>>
    /\ df_forecast' = NoFrame
    /\ df_monthly' = NoFrame
    /\ df_yearly' = NoFrame

\* the user changes "Yearly TAM Growth %" and/or "Fee Collection Method"
EditConfig ==
    /\ Rerun
    /\ \E yg \in YearlyGrowths, fm \in FeeMethods :
         /\ <<yg, fm>> # <<config.yearly_growth, config.fee_method>>
         /\ config' = [config EXCEPT !.yearly_growth = yg, !.fee_method = fm]
    /\ edit' = [kind |-> "config", d |-> 0, slot |-> 0]
    /\ UNCHANGED <<durations, slab_map, slot_fees, warned>>

\* the user ticks the "Block" checkbox of one slot
EditBlock ==
    /\ Rerun
    /\ \E d \in Range(durations) : \E k \in 1..d :
         /\ ~slot_fees[d][k].blocked
         /\ slot_fees' = [slot_fees EXCEPT ![d][k].blocked = TRUE]
         /\ edit' = [kind |-> "block", d |-> d, slot |-> k]
    /\ UNCHANGED <<config, durations, slab_map, warned>>

Next ==
    \/ Call
    \/ Skip
    \/ Month
    \/ Exhaust
    \/ Break
    \/ Continue
    \/ Return
    \/ Monthly
    \/ MonthlyRaises
    \/ Yearly
    \/ EditConfig
    \/ EditBlock

Spec == Init /\ [][Next]_vars

\* the inputs of the termination property: every market, with and without records
LiveInputs ==
    InputsOf(Markets, {tr \in Terms : tr.rising}, {<<>>, <<3>>},
             {<<0, 0>>, <<100, 50>>}, {"first"})

LiveInit == InitWith(LiveInputs)

\* run_forecast is sequential code: inside the loop the next step is taken
FairSpec ==
    LiveInit /\ [][Next]_vars /\ WF_vars(Month \/ Exhaust \/ Break \/ Continue)

-----------------------------------------------------------------------------
(* Reference quantities of the properties, written from the inputs alone *)

\* total_market * tam_pct/100 is reached by a cumulative usage of u
AtCeiling(u) == u * 100 >= config.total_market * config.tam_pct

RefBase == (config.total_market * config.tam_pct * config.start_pct) \div (100 * 100)

Keys(rows) == {<<rows[i]["Month"], rows[i]["Duration"], rows[i]["Slab"], rows[i]["Slot"]>> :
               i \in DOMAIN rows}

\* the records of the month being processed (at "grow": month m, and
\* active_users still holds its value from the start of that month)
MonthRows == SelectSeq(forecast, LAMBDA r : r["Month"] = m)

\* a measure of a row as a money amount
Val(r, col) == IF col = "Users" THEN QInt(r[col]) ELSE r[col]

\* the total of a measure over rows lo..hi
RECURSIVE RefTotal(_, _, _, _)
RefTotal(rows, col, lo, hi) ==
    IF lo > hi THEN QInt(0)
    ELSE IF lo = hi THEN Val(rows[lo], col)
    ELSE QAdd(RefTotal(rows, col, lo, (lo + hi) \div 2),
              RefTotal(rows, col, ((lo + hi) \div 2) + 1, hi))

Total(rows, col) == RefTotal(rows, col, 1, Len(rows))

RECURSIVE RefSum(_, _)
RefSum(f, S) ==
    IF S = {} THEN 0
    ELSE LET x == CHOOSE y \in S : TRUE IN f[x] + RefSum(f, S \ {x})

Unblocked(d) == {k \in 1..d : ~slot_fees[d][k].blocked}

Funded(d) == {s \in DOMAIN slab_map[d] : slab_map[d][s] > 0}

-----------------------------------------------------------------------------
(* C1: run_forecast terminates, and it never emits a record outside months  *)
(* 1..60: every run of the script that enters run_forecast reaches its      *)
(* return, the loop variable stays within 0..60, and each record's Month is *)
(* within 1..60.                                                            *)

C1_TerminatesWithin60 ==
    /\ [](m \in 0..60)
    /\ [](pc = "return" => \A i \in DOMAIN forecast : forecast[i]["Month"] \in 1..60)
    /\ (pc \in {"for", "grow"} ~> pc = "return")

\* a run that was never stopped by the ceiling has returned after 60 months
C1_Witness ==
    /\ pc = "return"
    /\ m = 60
    /\ ~AtCeiling(tam_used)
    /\ Len(forecast) >= 60

(* C2: for every processed month, every duration of the list, every slab    *)
(* of its allocation and every slot 1..d there is exactly one record if the *)
(* slab's percentage is positive and the slot is not blocked, and none      *)
(* otherwise; there is no other record.                                     *)

C2_OneRecordPerOpenSlot ==
    pc = "return" =>
        /\ Cardinality(Keys(forecast)) = Len(forecast)
        /\ Keys(forecast) =
               UNION { UNION { {<<mm, d, s, k>> : s \in Funded(d), k \in Unblocked(d)} :
                               d \in Range(durations) } : mm \in 1..m }

\* one duration with every slot blocked yields nothing, the other yields records
C2_Witness ==
    /\ pc = "return"
    /\ \E d \in Range(durations) :
         /\ Unblocked(d) = {}
         /\ Funded(d) # {}
         /\ \A i \in DOMAIN forecast : forecast[i]["Duration"] # d
    /\ forecast # <<>>

(* C3 as claimed: no record of any month, month 1 included, is emitted when *)
(* tam_used has already reached the ceiling.                                 *)

C3_NoMonthAtCeiling ==
    [][Len(forecast') > Len(forecast) => ~AtCeiling(tam_used)]_vars

(* C3 as amended: no record of a month m >= 2 is emitted when tam_used has  *)
(* already reached the ceiling (the test stands at the end of the month, so  *)
(* month 1 is emitted whatever base_users is).                               *)

C3_NoLaterMonthAtCeiling ==
    [][Len(forecast') > Len(forecast) /\ m' >= 2 => ~AtCeiling(tam_used)]_vars

\* records of a second month have been emitted
C3_Witness ==
    /\ pc = "grow"
    /\ m >= 2
    /\ forecast # <<>>
    /\ forecast[Len(forecast)]["Month"] = m

(* C8: tam_used starts as base_users and each end-of-month step adds the    *)
(* post-growth active_users a_m = floor(a_(m-1) * (1 + monthly_growth/100)),  *)
(* so that after month m it is base_users + a_1 + ... + a_m, whatever the     *)
(* slabs and the blocked slots are; and the number of months processed is the *)
(* least m in 1..60 at which that sum reaches the ceiling, or 60: the loop    *)
(* goes on only below the ceiling and returns only at it or after month 60.   *)

RefRecord(mm, d, s, k, A) ==
    LET U == (A * slab_map[d][s]) \div 100
        D == (U * config.default_rate) \div 100
        fees == QFrac(s * d * U, slot_fees[d][k].fee, 100)
        nii == QFrac(s * d * U, config.kibor + config.spread, 1200)
    IN  "Month" :> mm @@ "Year" :> ((mm - 1) \div 12) + 1 @@ "Duration" :> d @@
        "Slab" :> s @@ "Slot" :> k @@ "Users" :> U @@ "Deposit/User" :> s * d @@
        "Fee %" :> slot_fees[d][k].fee @@ "Fee Collected" :> fees @@ "NII" :> nii @@
        "Defaults" :> D @@
        "Profit" :> QSub(QSub(QAdd(fees, nii),
                              QFrac((D \div 2) * s * d, 100 - config.penalty_pct, 100)),
                         QInt((D - (D \div 2)) * s * d))

EveryRecordIsReference ==
    pc = "grow" =>
        \A i \in DOMAIN MonthRows :
            MonthRows[i] = RefRecord(m, MonthRows[i]["Duration"], MonthRows[i]["Slab"],
                                     MonthRows[i]["Slot"], active_users)

\* the documented scenario, at the end of the nested loops of month 1
InScenario ==
    /\ pc = "grow"
    /\ m = 1
    /\ config.total_market = 20000000 /\ config.tam_pct = 10 /\ config.start_pct = 10
    /\ config.monthly_growth = 2 /\ config.kibor = 11 /\ config.spread = 5
    /\ config.default_rate = 1 /\ config.penalty_pct = 10
    /\ durations = <<3>>
    /\ \A s \in DOMAIN slab_map[3] : slab_map[3][s] = IF s = 1000 THEN 100 ELSE 0
    /\ \A k \in 1..3 : slot_fees[3][k] = [fee |-> 1, blocked |-> FALSE]

ScenarioRecord(nii, profit) ==
    /\ forecast[1]["Month"] = 1 /\ forecast[1]["Slab"] = 1000 /\ forecast[1]["Slot"] = 1
    /\ forecast[1]["Users"] = 200000
    /\ forecast[1]["Deposit/User"] = 3000
    /\ forecast[1]["Fee Collected"] = QInt(6000000)
    /\ forecast[1]["NII"] = QInt(nii)
    /\ forecast[1]["Defaults"] = 2000
    /\ forecast[1]["Profit"] = QInt(profit)

(* C4 as claimed: every record equals the reference record, and in the     *)
(* documented scenario the month-1 slot-1 record has Users 200,000,         *)
(* Deposit/User 3000, Fee Collected 6,000,000, NII 800,000, Defaults 2,000  *)
(* and Profit 1,100,000.                                                    *)

SummaryOf(sum, key) ==
    LET ks == {df_forecast.rows[i][key] : i \in DOMAIN df_forecast.rows}
    IN  /\ Len(sum.rows) = Cardinality(ks)
        /\ \A i \in DOMAIN sum.rows :
             /\ sum.rows[i][key] \in ks
             /\ i > 1 => sum.rows[i - 1][key] < sum.rows[i][key]
             /\ \A col \in Range(Measures) :
                  Val(sum.rows[i], col) =
                      Total(SelectSeq(df_forecast.rows,
                                      LAMBDA r : r[key] = sum.rows[i][key]), col)

C5_SummariesAreGroupSums ==
    pc = "done" /\ df_forecast.rows # <<>> =>
        /\ SummaryOf(df_monthly, "Month")
        /\ SummaryOf(df_yearly, "Year")
        /\ \A i \in DOMAIN df_yearly.rows : \A col \in Range(Measures) :
             Val(df_yearly.rows[i], col) =
                 Total(SelectSeq(df_monthly.rows,
                                 LAMBDA r : ((r["Month"] - 1) \div 12) + 1
                                            = df_yearly.rows[i]["Year"]), col)
        /\ \A col \in Range(Measures) :
             /\ Total(df_forecast.rows, col) = Total(df_monthly.rows, col)
             /\ Total(df_monthly.rows, col) = Total(df_yearly.rows, col)

\* summaries of a table that spans two years with several records a month
C5_Witness ==
    /\ pc = "done"
    /\ Len(df_yearly.rows) >= 2
    /\ Len(df_monthly.rows) >= 13
    /\ Len(df_forecast.rows) > Len(df_monthly.rows)
    /\ df_monthly.rows[1]["Users"] > df_forecast.rows[1]["Users"]

(* C6: the summaries never fail on the table run_forecast returned, and    *)
(* when no record was emitted the forecast table and both summaries are     *)
(* empty tables.                                                            *)

C6_SummariesTotal ==
    /\ pc # "KeyError"
    /\ pc = "done" /\ forecast = <<>> =>
          df_forecast.rows = <<>> /\ df_monthly.rows = <<>> /\ df_yearly.rows = <<>>

(* C7: a run whose configuration differs from the previous run's only in   *)
(* yearly_growth and/or fee_method ends the same way with the same forecast *)
(* table, record for record, and the same monthly and yearly summaries.     *)

C7_UnusedFieldsDoNotMatter ==
    Ended /\ edit.kind = "config" =>
        /\ pc = prev.outcome
        /\ df_forecast = prev.forecast
        /\ df_monthly = prev.monthly
        /\ df_yearly = prev.yearly

\* a completed run with records, after both fields were changed
C7_Witness ==
    /\ pc = "done"
    /\ edit.kind = "config"
    /\ config.yearly_growth = 0
    /\ config.fee_method = "Monthly"
    /\ Len(df_forecast.rows) > 3
    /\ prev.outcome = "done"

(* C9 *)

\* sum over the durations and their funded slabs of floor(A * pct/100) * slots
ExpectedUsers(A) ==
    LET pairs == UNION { {<<d, s>> : s \in Funded(d)} : d \in Range(durations) }
        share == [p \in pairs |-> ((A * slab_map[p[1]][p[2]]) \div 100)
                                  * Cardinality(Unblocked(p[1]))]
    IN  RefSum(share, pairs)

\* a duration has a slab allocated 100% and two or more unblocked slots
FullDurationWithTwoSlots ==
    \E d \in Range(durations) :
        /\ \E s \in DOMAIN slab_map[d] : slab_map[d][s] = 100
        /\ Cardinality(Unblocked(d)) >= 2

\* records of the same (Month, Duration, Slab) agree on Users, Deposit/User,
\* NII and Defaults
SlotsShareTheSlabFields ==
    pc = "return" =>
        Cardinality({<<forecast[i]["Month"], forecast[i]["Duration"], forecast[i]["Slab"]>> :
                     i \in DOMAIN forecast})
        = Cardinality({<<forecast[i]["Month"], forecast[i]["Duration"], forecast[i]["Slab"],
                         forecast[i]["Users"], forecast[i]["Deposit/User"],
                         forecast[i]["NII"], forecast[i]["Defaults"]>> :
                       i \in DOMAIN forecast})

\* after a slot was blocked, the table is the previous one without that slot
BlockingOnlyRemoves ==
    Ended /\ edit.kind = "block" =>
        df_forecast.rows =
            SelectSeq(prev.forecast.rows,
                      LAMBDA r : ~(r["Duration"] = edit.d /\ r["Slot"] = edit.slot))

\* the Users of a monthly row are the Users of the month's records added up
MonthlyUsersAreRecordUsers ==
    pc = "done" =>
        \A i \in DOMAIN df_monthly.rows :
            QInt(df_monthly.rows[i]["Users"]) =
                Total(SelectSeq(df_forecast.rows,
                                LAMBDA r : r["Month"] = df_monthly.rows[i]["Month"]), "Users")

(* C9 as claimed: the records of one (Month, Duration, Slab) differ only in *)
(* Slot, Fee %, Fee Collected and Profit; blocking a slot only removes its   *)
(* records; the Users of month m, which monthly_summary adds up, are the sum *)
(* over durations and funded slabs of floor(A_m * pct/100) times the number  *)
(* of unblocked slots, and exceed A_m whenever a duration with a slab at     *)
(* 100% has two or more unblocked slots.                                     *)

UsersOfSlot(d, k) ==
    Total(SelectSeq(MonthRows, LAMBDA r : r["Duration"] = d /\ r["Slot"] = k), "Users").w

PctSum(d) == RefSum(slab_map[d], DOMAIN slab_map[d])

====
